---- MODULE Spec2Model ----
(***************************************************************************)
(* A model of the RoomInvitation facade of the Wechaty SDK                 *)
(* (src/unnamed/part_000) and of the smoke-testing script                  *)
(* (src/tests/fixtures/smoke-testing.ts).                                  *)
(*                                                                         *)
(* One facade method invocation is in flight at a time.  An action is the  *)
(* code that runs between two suspension points (await) of a method,       *)
(* together with the outcome of the puppet call it resumes from.           *)
(***************************************************************************)
EXTENDS Integers, Sequences, FiniteSets, TLC

\* ------------------------------------------------------------------ world

\* JavaScript's undefined, for string-valued slots.
Undefined == "undefined"

\* The bot contexts of the model: two running bots, and one context whose
\* puppet is not set.
Wechaties == {"w0", "w1", "w2"}

\* wechaty.puppet of each context.
puppet == [w \in Wechaties |-> IF w = "w0" THEN Undefined ELSE "puppet-" \o w]

Puppets == {puppet[w] : w \in Wechaties} \ {Undefined}

InvitationIds == {"i1", "i2"}

\* RoomInvitationPayload values of the model.  A field that is not in the
\* DOMAIN of the record is an absent (undefined) field.
PayloadFull ==
    [id |-> "i1", topic |-> "T", inviterId |-> "c1", memberCount |-> 3,
     memberIdList |-> <<"c1", "c2", "c3">>, timestamp |-> 1000]

PayloadSparse ==
    [id |-> "i1", inviterId |-> "c2", timestamp |-> 2500]

PayloadFalsy ==
    [id |-> "i2", topic |-> "", inviterId |-> "c1", memberCount |-> 0,
     memberIdList |-> <<>>, timestamp |-> 0]

PayloadPair ==
    [id |-> "i2", topic |-> "U", inviterId |-> "c3", memberCount |-> 2,
     memberIdList |-> <<"c3", "c1">>, timestamp |-> 1500]

Payloads == {PayloadFull, PayloadSparse, PayloadFalsy, PayloadPair}

\* The puppet's payload store holds no payload under an id.
NoPayload == [none |-> TRUE]

PayloadsOf(id) == {p \in Payloads : p.id = id}

Has(payload, f) == f \in DOMAIN payload

\* ------------------------------------------------------------------ JSON

PayloadFields ==
    <<"id", "topic", "inviterId", "memberCount", "memberIdList", "timestamp">>

LBrace == [t |-> "{"]
RBrace == [t |-> "}"]
Key(k) == [t |-> "key", k |-> k]
Val(v) == [t |-> "val", v |-> v]

RECURSIVE Members(_, _)
\* The members of the object, fields i.. of PayloadFields; a field whose value
\* is undefined is left out, as JSON.stringify does.
Members(payload, i) ==
    IF i > Len(PayloadFields) THEN <<>>
    ELSE LET f == PayloadFields[i]
         IN  (IF Has(payload, f) THEN <<Key(f), Val(payload[f])>> ELSE <<>>)
             \o Members(payload, i + 1)

\* JSON.stringify(payload): the text as a sequence of tokens.
JSONstringify(payload) == <<LBrace>> \o Members(payload, 1) \o <<RBrace>>

\* The text is a JSON object: braces around key/value pairs.
WellFormed(text) ==
    /\ Len(text) >= 2
    /\ text[1] = LBrace
    /\ text[Len(text)] = RBrace
    /\ (Len(text) - 2) % 2 = 0
    /\ \A i \in 2..(Len(text) - 1) :
          text[i].t = (IF i % 2 = 0 THEN "key" ELSE "val")

\* The object the well-formed text denotes: a later member wins.
ObjectOf(text) ==
    LET keys == {text[i].k : i \in {j \in 2..(Len(text) - 1) : j % 2 = 0}}
        last(k) == CHOOSE i \in 2..(Len(text) - 1) :
                      /\ i % 2 = 0 /\ text[i].k = k
                      /\ \A j \in (i + 1)..(Len(text) - 1) :
                            j % 2 = 0 => text[j].k # k
    IN  [k \in keys |-> text[last(k) + 1].v]

\* A parser that never throws: text that is not JSON denotes a bare object.
JSONparseLenient(text) ==
    [threw |-> FALSE,
     value |-> IF WellFormed(text) THEN ObjectOf(text) ELSE [id |-> "i1"]]

\* JSON.parse(text): throws a SyntaxError on text that is not JSON.
JSONparse(text) ==
    IF WellFormed(text)
    THEN [threw |-> FALSE, value |-> ObjectOf(text)]
    ELSE [threw |-> TRUE, value |-> NoPayload]

\* Texts that are not JSON: garbage, and a text cut short.
Malformed ==
    {<<[t |-> "not json"]>>}
    \cup {SubSeq(JSONstringify(p), 1, Len(JSONstringify(p)) - 1) : p \in {PayloadFull}}

\* ------------------------------------------------------------------ classes

\* The class RoomInvitation itself: its wechaty getters throw.
RoomInvitation == [name |-> "RoomInvitation", wechaty |-> Undefined]

\* The class bound to the context: its wechaty getters return the context.
wechatifyRoomInvitation(w) ==
    [name |-> "WechatifiedRoomInvitation", wechaty |-> w]

Classes == {RoomInvitation} \cup {wechatifyRoomInvitation(w) : w \in Wechaties}

\* wechaty.RoomInvitation: the context's own specialization of the class.
WechatyRoomInvitation(w) == wechatifyRoomInvitation(w)

\* wechaty.Contact.load(id): a contact handle of the context.
ContactLoad(w, id) == [id |-> id, wechaty |-> w]

\* No handle: what a failed construction leaves.
NoHandle == [id |-> Undefined, class |-> RoomInvitation]

\* A constructor without the puppet guard.
constructorUnguarded(class, id) ==
    IF class = RoomInvitation
    THEN [threw |-> "direct", handle |-> NoHandle]
    ELSE [threw |-> "none", handle |-> [id |-> id, class |-> class]]

\* new Class(id): throws on the class itself and on a context without puppet.
constructor(class, id) ==
    IF class = RoomInvitation
    THEN [threw |-> "direct", handle |-> NoHandle]
    ELSE IF puppet[class.wechaty] = Undefined
    THEN [threw |-> "no puppet", handle |-> NoHandle]
    ELSE [threw |-> "none", handle |-> [id |-> id, class |-> class]]

\* Class.load(id)
load(class, id) == constructor(class, id)

\* The handles that can exist.
Handles ==
    {constructor(c, id).handle :
        <<c, id>> \in {x \in Classes \X InvitationIds :
                          constructor(x[1], x[2]).threw = "none"}}

\* ------------------------------------------------------------------ state

VARIABLES
    store,        \* the payload store of each puppet: id -> payload
    accepted,     \* the invitations each puppet has committed as accepted
    pc,           \* where the method in flight is suspended; "idle", "done"
    method,       \* the facade method in flight
    self,         \* its receiver: a handle, or a class (id undefined)
    arg,          \* fromJSON's argument
    calls,        \* the puppet calls of this invocation, in order
    fetched,      \* the payload the invocation last fetched
    contactList,  \* the contact handles it loaded, in order
    readyLog,     \* the ready() calls that completed, in completion order
    warns,        \* log.warn calls of this invocation
    outcome,      \* "pending", "resolved", "rejected", "threw"
    value,        \* what the invocation returned
    clock,        \* Date.now() of the host, milliseconds
    observed,     \* the age() results the caller collected
    saved,        \* the toJSON() text the caller keeps
    restored,     \* the handle the caller got back from fromJSON(saved)
    botList,      \* smoke script: the bots of getBotList()
    versionSet,   \* smoke script: VERSION is not '0.0.0'
    startState,   \* smoke script: bot.start() of each bot
    stopState,    \* smoke script: bot.stop() of each bot
    mainPc,       \* smoke script: where main() is
    retval,       \* smoke script: the pending return value of main()
    exitCode      \* smoke script: the argument of process.exit

facadeVars ==
    <<store, accepted, pc, method, self, arg, calls, fetched, contactList,
      readyLog, warns, outcome, value>>
callerVars == <<clock, observed, saved, restored>>
smokeVars ==
    <<botList, versionSet, startState, stopState, mainPc, retval, exitCode>>
vars == <<facadeVars, callerVars, smokeVars>>

NoValue == "none"

Stores == [Puppets -> [InvitationIds -> Payloads \cup {NoPayload}]]

\* A store the puppets can hold: a payload is kept under its own id.
StoreOK(s) ==
    \A p \in Puppets : \A id \in InvitationIds :
        s[p][id] = NoPayload \/ s[p][id] \in PayloadsOf(id)

\* The caller keeps no text.
NoSaved == [text |-> <<>>, from |-> NoHandle, payload |-> NoPayload]

\* No invocation in flight.
IdleFacade ==
    /\ pc = "idle"
    /\ method = NoValue
    /\ self = NoHandle
    /\ arg = NoValue
    /\ calls = <<>>
    /\ fetched = NoPayload
    /\ contactList = <<>>
    /\ readyLog = <<>>
    /\ warns = 0
    /\ outcome = "pending"
    /\ value = NoValue

IdleCaller ==
    /\ clock = 0
    /\ observed = <<>>
    /\ saved = NoSaved
    /\ restored = NoHandle

IdleSmoke ==
    /\ botList = {}
    /\ versionSet = TRUE
    /\ startState = <<>>
    /\ stopState = <<>>
    /\ mainPc = "off"
    /\ retval = -1
    /\ exitCode = -1

Init ==
    /\ store \in {s \in Stores : StoreOK(s)}
    /\ accepted = [p \in Puppets |-> {}]
    /\ IdleFacade
    /\ IdleCaller
    /\ IdleSmoke

\* ------------------------------------------------------------------ puppet

\* One puppet shared by every class, whatever context it is bound to.
PuppetOfShared(h) == puppet["w1"]

\* this.wechaty.puppet of a handle.
PuppetOf(h) == puppet[h.class.wechaty]

\* A puppet call as the invocation's log keeps it.
Call(p, name, id, site, ok) ==
    [puppet |-> p, name |-> name, id |-> id, site |-> site, ok |-> ok]

\* puppet.roomInvitationPayload(id) answers when the transport does and the
\* puppet holds the payload.
FetchOK(h, ok) == ok /\ store[PuppetOf(h)][h.id] # NoPayload

\* The method starts on a handle: self and method are set.
Begin(m, h) ==
    /\ pc = "idle"
    /\ method' = m
    /\ self' = h

\* What a rejected promise, or a throw, carries.
Error(e) == [error |-> e]

\* The invocation ends: the promise settles.
Settle(o, v) ==
    /\ pc' = "done"
    /\ outcome' = o
    /\ value' = v

\* One await of this.wechaty.puppet.roomInvitationPayload(this.id) at the call
\* site: the call is logged, and on success the payload is kept.
Fetch(h, site, ok) ==
    /\ calls' = Append(calls,
                       Call(PuppetOf(h), "roomInvitationPayload", h.id, site,
                            FetchOK(h, ok)))
    /\ fetched' = IF FetchOK(h, ok) THEN store[PuppetOf(h)][h.id] ELSE fetched

\* ------------------------------------------------------------------ getters

\* payload.topic || payload.topic || ''
TopicOf(payload) ==
    IF Has(payload, "topic") /\ payload.topic # "" THEN payload.topic ELSE ""

\* payload.memberCount || payload.memberCount || 0
MemberCountOf(payload) ==
    IF Has(payload, "memberCount") /\ payload.memberCount # 0
    THEN payload.memberCount ELSE 0

\* payload.memberIdList || payload.memberIdList || []
MemberIdListOf(payload) ==
    IF Has(payload, "memberIdList") THEN payload.memberIdList ELSE <<>>

\* timestampToDate(timestamp): the Date of the payload's time.
timestampToDate(timestamp) == [time |-> timestamp]

\* Date.prototype.getTime()
getTime(date) == date.time

\* The payload the puppet holds for the handle.
PayloadOf(h) == store[PuppetOf(h)][h.id]

\* A method that awaits one payload fetch and resolves with the result it
\* derives from the payload.
Getter(m, h, ok, result) ==
    /\ Begin(m, h)
    /\ Fetch(h, m, ok)
    /\ IF FetchOK(h, ok)
       THEN Settle("resolved", result)
       ELSE Settle("rejected", Error("roomInvitationPayload"))
    /\ UNCHANGED <<store, accepted, arg, contactList, readyLog, warns>>
    /\ UNCHANGED <<callerVars, smokeVars>>

InviterOf(h, payload) == ContactLoad(h.class.wechaty, payload.inviterId)

inviter ==
    \E h \in Handles, ok \in BOOLEAN :
        Getter("inviter", h, ok, InviterOf(h, PayloadOf(h)))

topic ==
    \E h \in Handles, ok \in BOOLEAN :
        Getter("topic", h, ok, TopicOf(PayloadOf(h)))

memberCount ==
    \E h \in Handles, ok \in BOOLEAN :
        Getter("memberCount", h, ok, MemberCountOf(PayloadOf(h)))

date ==
    \E h \in Handles, ok \in BOOLEAN :
        Getter("date", h, ok, timestampToDate(PayloadOf(h).timestamp))

\* The parts of the string; join('') turns an undefined topic into ''.
toStringAsync ==
    \E h \in Handles, ok \in BOOLEAN :
        Getter("toStringAsync", h, ok,
               <<"RoomInvitation#", h.id, "<", TopicOf(PayloadOf(h)), ",",
                 PayloadOf(h).inviterId, ">">>)

toJSON ==
    \E h \in Handles, ok \in BOOLEAN :
        Getter("toJSON", h, ok, JSONstringify(PayloadOf(h)))

\* The invocation is over: its frame is gone.
Reset ==
    /\ pc = "done"
    /\ pc' = "idle"
    /\ method' = NoValue
    /\ self' = NoHandle
    /\ arg' = NoValue
    /\ calls' = <<>>
    /\ fetched' = NoPayload
    /\ contactList' = <<>>
    /\ readyLog' = <<>>
    /\ warns' = 0
    /\ outcome' = "pending"
    /\ value' = NoValue
    /\ UNCHANGED <<store, accepted>>

\* The caller drops the settled promise.
Return ==
    /\ Reset
    /\ UNCHANGED <<callerVars, smokeVars>>

\* ------------------------------------------------------------------ accept

\* The invocation goes on to its next suspension point.
Goto(label) ==
    /\ pc' = label
    /\ UNCHANGED <<outcome, value>>

\* accept() that issues roomInvitationAccept(this.id) again when it failed.
AcceptRetry(h, ok) ==
    /\ Begin("accept", h)
    /\ calls' =
          IF ok
          THEN <<Call(PuppetOf(h), "roomInvitationAccept", h.id, "accept", ok)>>
          ELSE <<Call(PuppetOf(h), "roomInvitationAccept", h.id, "accept", ok),
                 Call(PuppetOf(h), "roomInvitationAccept", h.id, "accept", TRUE)>>
    /\ accepted' = [accepted EXCEPT ![PuppetOf(h)] = @ \cup {h.id}]
    /\ Goto("accept_inviter")
    /\ UNCHANGED <<store, arg, fetched, contactList, readyLog, warns>>
    /\ UNCHANGED <<callerVars, smokeVars>>

\* accept(), to the await of roomInvitationAccept(this.id): the puppet commits
\* the acceptance, or the call fails and accept() rejects.
Accept(h, ok) ==
    /\ Begin("accept", h)
    /\ calls' = <<Call(PuppetOf(h), "roomInvitationAccept", h.id, "accept", ok)>>
    /\ accepted' = IF ok THEN [accepted EXCEPT ![PuppetOf(h)] = @ \cup {h.id}]
                   ELSE accepted
    /\ IF ok THEN Goto("accept_inviter")
       ELSE Settle("rejected", Error("roomInvitationAccept"))
    /\ UNCHANGED <<store, arg, fetched, contactList, readyLog, warns>>
    /\ UNCHANGED <<callerVars, smokeVars>>

accept == \E h \in Handles, ok \in BOOLEAN : Accept(h, ok)

\* const inviter = await this.inviter()
acceptInviter ==
    /\ pc = "accept_inviter"
    /\ \E ok \in BOOLEAN :
          /\ Fetch(self, "inviter", ok)
          /\ IF FetchOK(self, ok)
             THEN /\ contactList' =
                        <<InviterOf(self, store[PuppetOf(self)][self.id])>>
                  /\ Goto("accept_topic")
             ELSE /\ UNCHANGED contactList
                  /\ Settle("rejected", Error("roomInvitationPayload"))
    /\ UNCHANGED <<store, accepted, method, self, arg, readyLog, warns>>
    /\ UNCHANGED <<callerVars, smokeVars>>

\* const topic = await this.topic()
acceptTopic ==
    /\ pc = "accept_topic"
    /\ \E ok \in BOOLEAN :
          /\ Fetch(self, "topic", ok)
          /\ IF FetchOK(self, ok)
             THEN Goto("accept_ready")
             ELSE Settle("rejected", Error("roomInvitationPayload"))
    /\ UNCHANGED <<store, accepted, method, self, arg, contactList, readyLog,
                   warns>>
    /\ UNCHANGED <<callerVars, smokeVars>>

\* accept() without the try/catch around the ready() wait.
acceptReadyRethrows ==
    /\ pc = "accept_ready"
    /\ \E ok \in BOOLEAN :
          /\ readyLog' = <<[index |-> 1, ok |-> ok]>>
          /\ UNCHANGED warns
          /\ IF ok THEN Settle("resolved", Undefined)
             ELSE Settle("rejected", Error("ready"))
    /\ UNCHANGED <<store, accepted, method, self, arg, calls, fetched,
                   contactList>>
    /\ UNCHANGED <<callerVars, smokeVars>>

\* try { await inviter.ready(); return } catch (e) { log.warn(...) }
acceptReady ==
    /\ pc = "accept_ready"
    /\ \E ok \in BOOLEAN :
          /\ readyLog' = <<[index |-> 1, ok |-> ok]>>
          /\ warns' = IF ok THEN warns ELSE warns + 1
          /\ Settle("resolved", Undefined)
    /\ UNCHANGED <<store, accepted, method, self, arg, calls, fetched,
                   contactList>>
    /\ UNCHANGED <<callerVars, smokeVars>>

\* ------------------------------------------------------------------ memberList

\* The contacts in the order their ready() completed.
memberListResultByCompletion(list, log) ==
    [k \in 1..Len(log) |-> list[log[k].index]]

\* return contactList
memberListResult(list, log) == list

\* memberList(), to the await of Promise.all: the payload is fetched, one
\* contact is loaded per member id, and ready() is called on each.
memberList ==
    \E h \in Handles, ok \in BOOLEAN :
        /\ Begin("memberList", h)
        /\ Fetch(h, "memberList", ok)
        /\ IF FetchOK(h, ok)
           THEN LET contactIdList ==
                        MemberIdListOf(store[PuppetOf(h)][h.id])
                IN  /\ contactList' =
                          [i \in 1..Len(contactIdList) |->
                              ContactLoad(h.class.wechaty, contactIdList[i])]
                    /\ Goto("memberList_all")
           ELSE /\ UNCHANGED contactList
                /\ Settle("rejected", Error("roomInvitationPayload"))
        /\ UNCHANGED <<store, accepted, arg, readyLog, warns>>
        /\ UNCHANGED <<callerVars, smokeVars>>

\* The ready() calls that have not completed.
ReadyPending ==
    {i \in 1..Len(contactList) :
        \A k \in 1..Len(readyLog) : readyLog[k].index # i}

\* One of the ready() calls completes; Promise.all rejects on a rejection.
memberListReady ==
    /\ pc = "memberList_all"
    /\ \E i \in ReadyPending, ok \in BOOLEAN :
          /\ readyLog' = Append(readyLog, [index |-> i, ok |-> ok])
          /\ IF ok THEN Goto("memberList_all")
             ELSE Settle("rejected", Error("ready"))
    /\ UNCHANGED <<store, accepted, method, self, arg, calls, fetched,
                   contactList, warns>>
    /\ UNCHANGED <<callerVars, smokeVars>>

\* Promise.all resolves once every ready() has resolved.
memberListAll ==
    /\ pc = "memberList_all"
    /\ ReadyPending = {}
    /\ Settle("resolved", memberListResult(contactList, readyLog))
    /\ UNCHANGED <<store, accepted, method, self, arg, calls, fetched,
                   contactList, readyLog, warns>>
    /\ UNCHANGED <<callerVars, smokeVars>>

\* ------------------------------------------------------------------ age

MillisecondsPerSecond == 1000

\* The difference taken the wrong way round.
ageSecondsReversed(now, recvDate) ==
    (getTime(recvDate) - now) \div MillisecondsPerSecond

\* Math.floor((now - recvDate.getTime()) / 1000)
ageSeconds(now, recvDate) ==
    (now - getTime(recvDate)) \div MillisecondsPerSecond

\* age(), to the await of this.date()
Age(h, ok) ==
    /\ Begin("age", h)
    /\ Fetch(h, "date", ok)
    /\ IF FetchOK(h, ok) THEN Goto("age_now")
       ELSE Settle("rejected", Error("roomInvitationPayload"))
    /\ UNCHANGED <<store, accepted, arg, contactList, readyLog, warns>>
    /\ UNCHANGED <<callerVars, smokeVars>>

age == \E h \in Handles, ok \in BOOLEAN : Age(h, ok)

\* The clock is read once date() has resolved.
ageNow ==
    /\ pc = "age_now"
    /\ Settle("resolved",
              ageSeconds(clock, timestampToDate(fetched.timestamp)))
    /\ UNCHANGED <<store, accepted, method, self, arg, calls, fetched,
                   contactList, readyLog, warns>>
    /\ UNCHANGED <<callerVars, smokeVars>>

\* ------------------------------------------------------------------ load, fromJSON

\* The receiver of a static method.
Static(class) == [id |-> Undefined, class |-> class]

\* Class.load(id): a handle, or the constructor's exception.
Load(class, id) ==
    /\ Begin("load", Static(class))
    /\ arg' = id
    /\ IF load(class, id).threw = "none"
       THEN Settle("resolved", load(class, id).handle)
       ELSE Settle("threw", Error(load(class, id).threw))
    /\ UNCHANGED <<store, accepted, calls, fetched, contactList, readyLog,
                   warns>>
    /\ UNCHANGED <<callerVars, smokeVars>>

\* The arguments of fromJSON: a string, or a payload object.
String(text) == [type |-> "string", text |-> text, payload |-> NoPayload]
Object(payload) == [type |-> "object", text |-> <<>>, payload |-> payload]

FromJSONArgs ==
    {String(JSONstringify(p)) : p \in Payloads}
    \cup {String(t) : t \in Malformed}
    \cup {Object(p) : p \in Payloads}

\* if (typeof payload === 'string') { payload = JSON.parse(payload) }
Parsed(a) ==
    IF a.type = "string" THEN JSONparse(a.text)
    ELSE [threw |-> FALSE, value |-> a.payload]

\* fromJSON(payload), to the await of the write-through call: the string is
\* parsed and this.wechaty.puppet is looked up; either may throw.
FromJSON(class, a) ==
    /\ Begin("fromJSON", Static(class))
    /\ arg' = a
    /\ IF Parsed(a).threw
       THEN /\ Settle("rejected", Error("SyntaxError"))
            /\ UNCHANGED fetched
       ELSE IF class = RoomInvitation
       THEN /\ Settle("rejected", Error("direct"))
            /\ UNCHANGED fetched
       ELSE IF puppet[class.wechaty] = Undefined
       THEN /\ Settle("rejected", Error("TypeError"))
            /\ UNCHANGED fetched
       ELSE /\ fetched' = Parsed(a).value
            /\ Goto("fromJSON_store")
    /\ UNCHANGED <<store, accepted, calls, contactList, readyLog, warns>>
    /\ UNCHANGED <<callerVars, smokeVars>>

fromJSON == \E class \in Classes, a \in FromJSONArgs : FromJSON(class, a)

\* fromJSON that makes the handle without the write-through.
fromJSONStoreNoWrite ==
    /\ pc = "fromJSON_store"
    /\ \E ok \in BOOLEAN :
          LET p == PuppetOf(self)
              made == load(WechatyRoomInvitation(self.class.wechaty), fetched.id)
          IN  /\ calls' = <<Call(p, "roomInvitationPayload", fetched.id,
                                 "fromJSON", ok)>>
              /\ UNCHANGED store
              /\ IF ~ok
                 THEN Settle("rejected", Error("roomInvitationPayload"))
                 ELSE Settle("resolved", made.handle)
    /\ UNCHANGED <<accepted, method, self, arg, fetched, contactList, readyLog,
                   warns>>
    /\ UNCHANGED <<callerVars, smokeVars>>

\* await this.wechaty.puppet.roomInvitationPayload(payload.id, payload)
\* return this.wechaty.RoomInvitation.load(payload.id)
fromJSONStore ==
    /\ pc = "fromJSON_store"
    /\ \E ok \in BOOLEAN :
          LET p == PuppetOf(self)
              made == load(WechatyRoomInvitation(self.class.wechaty), fetched.id)
          IN  /\ calls' = <<Call(p, "roomInvitationPayload", fetched.id,
                                 "fromJSON", ok)>>
              /\ store' = IF ok THEN [store EXCEPT ![p][fetched.id] = fetched]
                          ELSE store
              /\ IF ~ok
                 THEN Settle("rejected", Error("roomInvitationPayload"))
                 ELSE IF made.threw # "none"
                 THEN Settle("rejected", Error(made.threw))
                 ELSE Settle("resolved", made.handle)
    /\ UNCHANGED <<accepted, method, self, arg, fetched, contactList, readyLog,
                   warns>>
    /\ UNCHANGED <<callerVars, smokeVars>>

\* ------------------------------------------------------------------ facade

Next ==
    \/ \E class \in Classes, id \in InvitationIds : Load(class, id)
    \/ accept
    \/ acceptInviter
    \/ acceptTopic
    \/ acceptReady
    \/ inviter
    \/ topic
    \/ memberCount
    \/ memberList
    \/ memberListReady
    \/ memberListAll
    \/ date
    \/ age
    \/ ageNow
    \/ toStringAsync
    \/ toJSON
    \/ fromJSON
    \/ fromJSONStore
    \/ Return

Spec == Init /\ [][Next]_vars

TypeOK ==
    /\ StoreOK(store)
    /\ pc \in {"idle", "done", "accept_inviter", "accept_topic", "accept_ready",
               "memberList_all", "age_now", "fromJSON_store"}

\* ------------------------------------------------------------------ claims

\* Every call of the log succeeded.
AllCallsOK == \A k \in 1..Len(calls) : calls[k].ok

\* accept() has ended, its commit and both payload fetches succeeded, and
\* the inviter's ready() rejected.
C1_ReadyRejected ==
    /\ pc = "done"
    /\ method = "accept"
    /\ Len(calls) = 3
    /\ AllCallsOK
    /\ readyLog = <<[index |-> 1, ok |-> FALSE]>>

\* C1: when roomInvitationAccept and the payload fetches succeed and the
\* inviter's ready() rejects, accept() resolves, and one warning was logged
\* during the call.
C1_AcceptSwallowsReadyFailure ==
    C1_ReadyRejected => outcome = "resolved" /\ warns = 1

\* accept() has ended and its roomInvitationAccept call had succeeded.
AcceptCommitted ==
    /\ pc = "done"
    /\ method = "accept"
    /\ calls[1].name = "roomInvitationAccept"
    /\ calls[1].ok

\* C2: once roomInvitationAccept has succeeded, accept() resolves, whatever
\* fails afterwards (the payload fetch of inviter() or topic() included).
C2_AcceptResolvesOnceCommitted ==
    AcceptCommitted => outcome = "resolved"

\* The number of calls of the log made from the call site.
CallsFrom(site) == Cardinality({k \in 1..Len(calls) : calls[k].site = site})

\* accept() has ended after its roomInvitationAccept call failed.
C3_CommitFailed ==
    /\ pc = "done"
    /\ method = "accept"
    /\ ~calls[1].ok

\* C3: a failed puppet call is the last call of its invocation, the method
\* rejects with that call's failure, and no call site is run twice; accept()
\* calls roomInvitationAccept first and once, and when that call fails it
\* rejects with no payload fetch and no ready().
C3_NoRetry ==
    /\ \A k \in 1..Len(calls) :
          ~calls[k].ok =>
              /\ k = Len(calls)
              /\ pc = "done"
              /\ outcome = "rejected"
              /\ value = Error(calls[k].name)
    /\ \A k \in 1..Len(calls) : CallsFrom(calls[k].site) = 1
    /\ (method = "accept" /\ pc # "idle") =>
          /\ Len(calls) >= 1
          /\ calls[1].name = "roomInvitationAccept"
          /\ \A k \in 2..Len(calls) : calls[k].name # "roomInvitationAccept"
          /\ ~calls[1].ok =>
                /\ Len(calls) = 1
                /\ contactList = <<>>
                /\ readyLog = <<>>
                /\ outcome = "rejected"

\* fromJSON was given a string that is not JSON.
FromJSONOfMalformed ==
    /\ method = "fromJSON"
    /\ arg.type = "string"
    /\ arg.text \in Malformed

\* fromJSON of a string that is not JSON has ended.
C5_ParseFailed == FromJSONOfMalformed /\ pc = "done"

\* C5: fromJSON of a string that is not JSON rejects with the parse error in
\* its first step: no puppet call is made, no handle is made, and the payload
\* stores are as they were.
C5_ParseErrorBeforePuppet ==
    /\ [](FromJSONOfMalformed =>
            /\ pc = "done"
            /\ outcome = "rejected"
            /\ value = Error("SyntaxError")
            /\ calls = <<>>)
    /\ [][(pc = "idle" /\ method' = "fromJSON" /\ arg'.type = "string"
           /\ arg'.text \in Malformed) => store' = store]_vars

\* load(id) has returned a handle of a class of the second bot.
C6_Loaded ==
    /\ pc = "done"
    /\ method = "load"
    /\ outcome = "resolved"
    /\ self.class.wechaty = "w2"

\* C6: load(id) makes no puppet call; on a class bound to a context with a
\* puppet it returns a handle of that class with that id, and on the class
\* RoomInvitation or a context without puppet it throws and makes no handle.
C6_LoadKeepsId ==
    (pc = "done" /\ method = "load") =>
        /\ calls = <<>>
        /\ IF self.class.name = "WechatifiedRoomInvitation"
              /\ puppet[self.class.wechaty] # Undefined
           THEN /\ outcome = "resolved"
                /\ value.id = arg
                /\ value.class = self.class
           ELSE /\ outcome = "threw"
                /\ value \in {Error("direct"), Error("no puppet")}

\* memberList() has resolved with three contacts, and the ready() of the
\* last one completed first.
C7_OutOfOrder ==
    /\ pc = "done"
    /\ method = "memberList"
    /\ outcome = "resolved"
    /\ Len(value) = 3
    /\ readyLog[1].index = 3

\* C7: memberList() resolves with one contact per id of the payload's
\* memberIdList (none when the list is absent), in the list's order, and only
\* once the ready() of every one of them has resolved, whatever the order of
\* completion; it rejects when a ready() rejects.
C7_MemberListInOrder ==
    /\ (pc = "done" /\ method = "memberList" /\ outcome = "resolved") =>
          LET ids == IF Has(fetched, "memberIdList")
                     THEN fetched.memberIdList ELSE <<>>
          IN  /\ Len(value) = Len(ids)
              /\ \A i \in 1..Len(ids) :
                    /\ value[i] = [id |-> ids[i], wechaty |-> self.class.wechaty]
                    /\ \E k \in 1..Len(readyLog) :
                          readyLog[k] = [index |-> i, ok |-> TRUE]
    /\ (method = "memberList" /\ \E k \in 1..Len(readyLog) : ~readyLog[k].ok) =>
          pc = "done" /\ outcome = "rejected"

\* fromJSON on the class of the second bot has resolved.
C8_SecondBot ==
    /\ pc = "done"
    /\ method = "fromJSON"
    /\ outcome = "resolved"
    /\ self.class.wechaty = "w2"

\* What the invocation in flight has reached stays in the context W of its
\* receiver: its puppet calls, the contacts it loaded, the handle it made.
BoundContext ==
    pc # "idle" =>
        LET W == self.class.wechaty
        IN  /\ \A k \in 1..Len(calls) : calls[k].puppet = puppet[W]
            /\ \A i \in 1..Len(contactList) : contactList[i].wechaty = W
            /\ (method = "inviter" /\ outcome = "resolved") =>
                  value.wechaty = W
            /\ (method \in {"load", "fromJSON"} /\ outcome = "resolved") =>
                  /\ value.class.wechaty = W
                  /\ puppet[W] # Undefined

\* C8: with two bots, the puppet calls of an invocation go to the puppet of
\* the receiver's context, its contacts come from that context, a handle made
\* by load or fromJSON is bound to the context of the class it was made from,
\* the receiver of an invocation in flight is never rebound, and only the
\* puppet of the receiver's context changes.
C8_BoundContext ==
    /\ []BoundContext
    /\ [][(pc # "idle" /\ pc' # "idle") => self' = self]_vars
    /\ [][\A p \in Puppets :
            (store'[p] # store[p] \/ accepted'[p] # accepted[p]) =>
                (pc' # "idle" /\ p = puppet[self'.class.wechaty])]_vars

\* ------------------------------------------------------------------ round trip

\* The caller keeps the text toJSON() resolved with, to restore it later.
Keep ==
    /\ method = "toJSON"
    /\ outcome = "resolved"
    /\ saved' = [text |-> value, from |-> self, payload |-> fetched]
    /\ restored' = NoHandle
    /\ Reset
    /\ UNCHANGED <<clock, observed, smokeVars>>

\* fromJSON(saved) on the class of the handle's context.
Restore ==
    /\ saved # NoSaved
    /\ FromJSON(saved.from.class, String(saved.text))

\* The caller keeps the handle fromJSON(saved) resolved with.
KeepRestored ==
    /\ method = "fromJSON"
    /\ arg.type = "string"
    /\ outcome = "resolved"
    /\ restored' = value
    /\ Reset
    /\ UNCHANGED <<clock, observed, saved, smokeVars>>

\* Someone else's fromJSON of a payload object, while nothing is restored:
\* the store is stable once the caller holds the restored handle.
OtherFromJSON ==
    /\ restored = NoHandle
    /\ \E class \in Classes, p \in Payloads : FromJSON(class, Object(p))

NextRoundTrip ==
    \/ toJSON
    \/ Keep
    \/ OtherFromJSON
    \/ Restore
    \/ fromJSONStore
    \/ KeepRestored
    \/ inviter
    \/ topic
    \/ memberCount
    \/ memberList
    \/ memberListReady
    \/ memberListAll
    \/ date
    \/ Return

SpecRoundTrip == Init /\ [][NextRoundTrip]_vars

\* A read of the restored handle has resolved.
ReadOfRestored(m) ==
    /\ restored # NoHandle
    /\ pc = "done"
    /\ method = m
    /\ self = restored
    /\ outcome = "resolved"

\* The topic of the payload saved with every member was read back from the
\* restored handle.
C4_ReadBack ==
    /\ ReadOfRestored("topic")
    /\ saved.payload = PayloadFull

\* C4: fromJSON writes the payload it was given into the puppet's store under
\* the payload's id before it resolves with a handle of that id, and rejects
\* with no handle when the write fails; after fromJSON(toJSON(h)), with the
\* store left alone, the handle has the id of h's payload P, the store holds P,
\* and the topic, member count, inviter, member list and date read from the
\* handle are those of P.
C4_RoundTrip ==
    /\ (pc = "done" /\ method = "fromJSON" /\ calls # <<>>) =>
          IF calls[1].ok
          THEN /\ outcome = "resolved"
               /\ calls[1].id = fetched.id
               /\ store[calls[1].puppet][fetched.id] = fetched
               /\ value.id = fetched.id
               /\ (arg.type = "string" /\ saved # NoSaved) =>
                     fetched = saved.payload
          ELSE /\ outcome = "rejected"
               /\ value = Error("roomInvitationPayload")
    /\ restored # NoHandle =>
          LET P == saved.payload
          IN  /\ restored.id = P.id
              /\ restored.class.wechaty = saved.from.class.wechaty
              /\ store[puppet[restored.class.wechaty]][P.id] = P
              /\ ReadOfRestored("topic") =>
                    value = (IF Has(P, "topic") THEN P.topic ELSE "")
              /\ ReadOfRestored("memberCount") =>
                    value = (IF Has(P, "memberCount") THEN P.memberCount ELSE 0)
              /\ ReadOfRestored("inviter") => value.id = P.inviterId
              /\ ReadOfRestored("memberList") =>
                    [i \in 1..Len(value) |-> value[i].id]
                        = (IF Has(P, "memberIdList") THEN P.memberIdList
                           ELSE <<>>)
              /\ ReadOfRestored("date") => getTime(value) = P.timestamp

\* ------------------------------------------------------------------ age

\* The host clock goes up to MaxClock, in steps of TickSteps milliseconds.
MaxClock == 3000
TickSteps == {500, 1000}

\* Time passes on the host.
Tick ==
    /\ \E d \in TickSteps :
          /\ clock + d <= MaxClock
          /\ clock' = clock + d
    /\ UNCHANGED <<facadeVars, observed, saved, restored, smokeVars>>

\* The last two of the results.
LastTwo(seq) == IF Len(seq) > 2 THEN SubSeq(seq, Len(seq) - 1, Len(seq)) ELSE seq

\* The caller notes the age() result, with the handle and the payload
\* timestamp it came from.
Observe ==
    /\ method = "age"
    /\ outcome = "resolved"
    /\ observed' = LastTwo(Append(observed,
                      [self |-> self, timestamp |-> fetched.timestamp,
                       age |-> value]))
    /\ Reset
    /\ UNCHANGED <<clock, saved, restored, smokeVars>>

\* The invitation whose age the caller watches.
Watched == load(wechatifyRoomInvitation("w1"), "i1").handle

\* The invitation's payload is replaced, and its timestamp with it.
Replace ==
    \E p \in PayloadsOf(Watched.id) : FromJSON(Watched.class, Object(p))

InitAge ==
    /\ Init
    /\ \A p \in Puppets : \A id \in InvitationIds :
          store[p][id] # NoPayload => (p = PuppetOf(Watched) /\ id = Watched.id)

NextAge ==
    \/ age
    \/ ageNow
    \/ Observe
    \/ Tick
    \/ Replace
    \/ fromJSONStore
    \/ Return

SpecAge == InitAge /\ [][NextAge]_vars

\* The last two age() results are of one handle and one payload timestamp.
SameInvitation ==
    /\ Len(observed) = 2
    /\ observed[1].self = observed[2].self
    /\ observed[1].timestamp = observed[2].timestamp

\* Two successive age() calls on one handle with one timestamp, the second
\* result greater than the first.
C9_Grew == SameInvitation /\ observed[1].age < observed[2].age

\* C9: of two successive age() calls on a handle whose payload timestamp is
\* the same, the later result is not below the earlier one; and each result is
\* the floor of (the clock when date() has resolved - the payload's time in
\* milliseconds) / 1000.
C9_AgeMonotonic ==
    /\ [](SameInvitation => observed[1].age <= observed[2].age)
    /\ [][(pc = "age_now" /\ pc' = "done") =>
            LET elapsed == clock - fetched.timestamp
            IN  /\ value' * 1000 <= elapsed
                /\ elapsed < (value' + 1) * 1000]_vars

\* ------------------------------------------------------------------ smoke test

\* getBotList(): the mock bot, and one more per puppet token of the
\* environment.
getBotList(serviceToken, padlocalToken) ==
    {"wechaty-puppet-mock"}
    \cup (IF serviceToken THEN {"wechaty-puppet-service"} ELSE {})
    \cup (IF padlocalToken THEN {"wechaty-puppet-padlocal"} ELSE {})

\* main() is entered: the bot list is made; nothing is started yet.
InitSmoke ==
    /\ store = [p \in Puppets |-> [id \in InvitationIds |-> NoPayload]]
    /\ accepted = [p \in Puppets |-> {}]
    /\ IdleFacade
    /\ IdleCaller
    /\ \E serviceToken \in BOOLEAN, padlocalToken \in BOOLEAN :
          botList = getBotList(serviceToken, padlocalToken)
    /\ versionSet \in BOOLEAN
    /\ startState = [b \in botList |-> "not called"]
    /\ stopState = [b \in botList |-> "not called"]
    /\ mainPc = "main"
    /\ retval = -1
    /\ exitCode = -1

\* await Promise.all(botList.map(bot => bot.start())): every start() is
\* called.
mainStart ==
    /\ mainPc = "main"
    /\ startState' = [b \in botList |-> "pending"]
    /\ mainPc' = "await start"
    /\ UNCHANGED <<botList, versionSet, stopState, retval, exitCode>>
    /\ UNCHANGED <<facadeVars, callerVars>>

\* A bot's start() settles, while the process runs.
startSettles ==
    /\ mainPc \in {"await start", "await stop"}
    /\ \E b \in botList, ok \in BOOLEAN :
          /\ startState[b] = "pending"
          /\ startState' = [startState EXCEPT ![b] = IF ok THEN "ok" ELSE "failed"]
    /\ UNCHANGED <<botList, versionSet, stopState, mainPc, retval, exitCode>>
    /\ UNCHANGED <<facadeVars, callerVars>>

\* finally { await Promise.all(botList.map(bot => bot.stop())) }: every
\* stop() is called.
Finally ==
    /\ stopState' = [b \in botList |-> "pending"]
    /\ mainPc' = "await stop"

\* Every start() resolved: the diagnostics are logged, then the finally block.
startResolved ==
    /\ mainPc = "await start"
    /\ \A b \in botList : startState[b] = "ok"
    /\ Finally
    /\ UNCHANGED <<botList, versionSet, startState, retval, exitCode>>
    /\ UNCHANGED <<facadeVars, callerVars>>

\* A start() failed and nothing of the finally block runs.
startRejectedNoFinally ==
    /\ mainPc = "await start"
    /\ \E b \in botList : startState[b] = "failed"
    /\ retval' = 1
    /\ mainPc' = "exited"
    /\ exitCode' = 1
    /\ UNCHANGED <<botList, versionSet, startState, stopState>>
    /\ UNCHANGED <<facadeVars, callerVars>>

\* A start() rejected: catch (e) { return 1 }, then the finally block.
startRejected ==
    /\ mainPc = "await start"
    /\ \E b \in botList : startState[b] = "failed"
    /\ retval' = 1
    /\ Finally
    /\ UNCHANGED <<botList, versionSet, startState, exitCode>>
    /\ UNCHANGED <<facadeVars, callerVars>>

\* A bot's stop() settles.
stopSettles ==
    /\ mainPc = "await stop"
    /\ \E b \in botList, ok \in BOOLEAN :
          /\ stopState[b] = "pending"
          /\ stopState' = [stopState EXCEPT ![b] = IF ok THEN "ok" ELSE "failed"]
    /\ UNCHANGED <<botList, versionSet, startState, mainPc, retval, exitCode>>
    /\ UNCHANGED <<facadeVars, callerVars>>

\* Every stop() resolved: the pending return 1 completes, or VERSION is
\* asserted and main() returns 0; main().then(process.exit), or .catch.
stopResolved ==
    /\ mainPc = "await stop"
    /\ \A b \in botList : stopState[b] = "ok"
    /\ exitCode' = IF retval = 1 THEN 1
                   ELSE IF versionSet THEN 0
                   ELSE 1
    /\ mainPc' = "exited"
    /\ UNCHANGED <<botList, versionSet, startState, stopState, retval>>
    /\ UNCHANGED <<facadeVars, callerVars>>

\* A stop() rejected: the finally block throws, main() rejects, and the
\* .catch handler exits with 1.
stopRejected ==
    /\ mainPc = "await stop"
    /\ \E b \in botList : stopState[b] = "failed"
    /\ exitCode' = 1
    /\ mainPc' = "exited"
    /\ UNCHANGED <<botList, versionSet, startState, stopState, retval>>
    /\ UNCHANGED <<facadeVars, callerVars>>

NextSmoke ==
    \/ mainStart
    \/ startSettles
    \/ startResolved
    \/ startRejected
    \/ stopSettles
    \/ stopResolved
    \/ stopRejected

SpecSmoke == InitSmoke /\ [][NextSmoke]_vars

\* A start() or a stop() of some bot has failed.
SomeFailed ==
    \E b \in botList : startState[b] = "failed" \/ stopState[b] = "failed"

\* The process has exited after a start() failed, with three bots.
C10_ExitedAfterStartFailure ==
    /\ mainPc = "exited"
    /\ Cardinality(botList) = 3
    /\ \E b \in botList : startState[b] = "failed"

\* C10: with VERSION set, the script exits with 1 when a start() or a stop()
\* has failed and with 0 when every start() and stop() resolved; and when it
\* exits, stop() has been called on every bot.
C10_SmokeExit ==
    mainPc = "exited" =>
        /\ \A b \in botList : stopState[b] # "not called"
        /\ versionSet =>
              /\ SomeFailed => exitCode = 1
              /\ ~SomeFailed => exitCode = 0
        /\ exitCode \in {0, 1}

====
